---------------------------- MODULE Spec2Model ----------------------------
(***************************************************************************)
(* A model of the mark-and-sweep collector of src/gc.rs: the intrusive     *)
(* allocation list of GcHeader blocks owned by Gc_, the allocation path    *)
(* (alloc, alloc_and_collect), the recursive mark phase and the in-place   *)
(* sweep, together with a mutator that keeps a root stack and stores       *)
(* handles in the payloads of the objects it allocated.                    *)
(*                                                                         *)
(* The payload type T is the Vec<Value> of the module's tests, reduced to  *)
(* the Data entries its traverse enumerates: a payload is a sequence of    *)
(* handles (payload addresses).                                            *)
(***************************************************************************)
EXTENDS Integers, Sequences, FiniteSets, TLC

\* ------------------------------------------------------------- bounds
MaxObjs == 3            \* blocks the heap can hold at a time
MaxRoots == 2           \* length of the root stack
MaxFields == 2          \* length of a payload vector
LowCollectLimit == 2    \* collect_limit scaled down to the heap bound (SpecLow)
MaxRefs == 3            \* handles stored in all payloads together
Stride == 64            \* distance between the block addresses of the heap
MaxHeaderSize == 32     \* header sizes value_offset is computed for (SpecOffset)
MaxAlignment == 16      \* alignments value_offset is computed for (SpecOffset)

\* -------------------------------------------------- program constants
DefaultCollectLimit == 100   \* Gc::new
HeaderSize == 24             \* mem::size_of::<GcHeader>()
MaxAlign == 8                \* mem::align_of::<f64>()
SizeOfT == 24                \* mem::size_of::<T>() for T = Vec<Value>

None == 0

VARIABLES
    values,             \* Gc_.values: the head of the allocation list
    header,             \* the GcHeader at each block address
    payload,            \* the value stored behind each header
    heap,               \* the allocator's record of each block
    allocated_objects,  \* Gc_.allocated_objects
    collect_limit,      \* Gc_.collect_limit
    borrowed,           \* the RefCell's mutable borrow flag
    pc,                 \* position of the running operation
    op,                 \* the public operation that is running
    arg,                \* the value argument of alloc_and_collect
    stack,              \* the traverse calls in progress (children left)
    first,              \* sweep's local list head
    maybe_header,       \* sweep's cursor: the link it points at
    roots,              \* the mutator's root stack
    handles,            \* the handles the mutator was given
    list0,              \* the allocation list when the operation began
    reach0,             \* the blocks reachable from roots at that moment
    count0,             \* allocated_objects at that moment
    visits,             \* marks set (and traversals made) per block
    examined,           \* sweep examinations per block
    freed,              \* the blocks released by this operation
    ncollect,           \* collections this operation has completed
    newobj,             \* the block this operation allocated
    fresh,              \* nothing changed since a collect returned
    shared,             \* the block with several referrers that is followed
    stage,              \* how far the followed block has come
    hs,                 \* value_offset's hs: the header size
    max_align,          \* value_offset's max_align: the maximum alignment
    offset              \* the value value_offset returned (-1 before the call)

prog == <<values, header, payload, heap, allocated_objects, collect_limit, borrowed>>
ctl == <<pc, op, arg, stack, first, maybe_header>>
env == <<roots, handles>>
mon == <<shared, stage>>
hist == <<list0, reach0, count0, visits, examined, freed, ncollect, newobj, fresh, mon>>
layout == <<hs, max_align, offset>>
vars == <<prog, ctl, env, hist, layout>>

\* ------------------------------------------------------------ helpers
Range(s) == {s[i] : i \in 1..Len(s)}

SeqsUpTo(S, n) == UNION {[1..k -> S] : k \in 0..n}

Addr == {Stride * i : i \in 1..MaxObjs}

\* a padding that is not reduced modulo the alignment, against which the
\* rounding is checked
ValueOffsetPadded(size, a) == size + (a - (size % a))

\* GcHeader::value_offset, for a header size and a maximum alignment a
ValueOffset(size, a) == size + ((a - (size % a)) % a)

value_offset == ValueOffset(HeaderSize, MaxAlign)

\* GcHeader::value: the payload address of the block at h
HeaderValue(h) == h + value_offset

\* a header looked for at the payload address itself, against which the
\* pointer arithmetic is checked
HeaderAtValue(p) == p

\* Gc_::gc_header: the header address of the payload at p
gc_header(p) == p - value_offset

\* the size AllocPtr::new asks of allocate, and Drop gives to deallocate
BlockSize(value_size) == value_offset + value_size

FreeBlock == [size |-> 0, align |-> 0]

NoHeader == [next |-> None, value_size |-> 0, marked |-> FALSE]

\* a header born with its flag set, against which idempotence is checked
MarkedHeader(value_size) == [next |-> None, value_size |-> value_size, marked |-> TRUE]

\* the header AllocPtr::new writes
NewHeader(value_size) == [next |-> None, value_size |-> value_size, marked |-> FALSE]

Allocated == {a \in Addr : heap[a] # FreeBlock}

\* the block allocate returns: the lowest free one (the blocks are interchangeable)
FreeAddrs == {a \in Addr \ Allocated : \A b \in Addr \ Allocated : a <= b}

\* the chain of headers from h, as num_objects walks it
RECURSIVE Chain(_, _, _)
Chain(hd, h, n) ==
    IF h = None \/ n = 0 THEN <<>> ELSE <<h>> \o Chain(hd, hd[h].next, n - 1)

List == Chain(header, values, MaxObjs + 1)

num_objects == Len(List)

\* a traverse that hands out nothing, against which the marking is checked
NoChildren(h) == <<>>

\* a traverse that stops after its first child, against which sharing is checked
FirstChild(h) == IF payload[h] = <<>> THEN <<>> ELSE <<payload[h][1]>>

\* the children value.traverse hands to its callback
Children(h) == payload[h]

\* the blocks reachable from a set of blocks through traverse
RECURSIVE Closure(_)
Closure(S) ==
    LET U == S \cup UNION {{gc_header(p) : p \in Range(payload[a])} : a \in S \cap Allocated}
    IN  IF U = S THEN S ELSE Closure(U)

Reach == Closure({gc_header(r) : r \in Range(roots)})

\* the handles stored in the payloads of the blocks of S
RECURSIVE Stored(_)
Stored(S) ==
    IF S = {} THEN 0
    ELSE LET a == CHOOSE x \in S : TRUE IN Len(payload[a]) + Stored(S \ {a})

\* a mark that never finds the flag set, against which termination is checked
NeverMarked(h) == FALSE

\* header.marked, as mark reads it
AlreadyMarked(h) == header[h].marked

\* a sweep that takes every header for unmarked, against which safety is checked
AlwaysUnreached(h) == TRUE

\* a sweep that takes every header for marked, against which reclamation is checked
NeverUnreached(h) == FALSE

\* !header.marked, as sweep reads it
Unreached(h) == ~header[h].marked

\* a sweep that leaves the flag set, against which the clear flags are checked
StickyMark == TRUE

\* the flag sweep leaves on a survivor
SweptMark == FALSE

\* a test that lets the limit itself pass, against which the threshold is checked
OverLimit == allocated_objects > collect_limit

\* the test of alloc_and_collect
ShouldCollect == allocated_objects >= collect_limit

\* a free that does not count, against which the counter is checked
NoDecrement(n) == n

\* allocated_objects -= 1 on a uint: -1 stands for the wrapped value
Decrement(n) == IF n = 0 THEN -1 ELSE n - 1

\* Drop for AllocPtr: the header is read out and dropped, which drops its next
\* (the whole chain behind it), and then the block is deallocated
RECURSIVE DropAllocPtr(_, _, _)
DropAllocPtr(hd, h, n) ==
    IF h = None \/ n = 0 THEN <<>> ELSE DropAllocPtr(hd, hd[h].next, n - 1) \o <<h>>

\* what Drop for AllocPtr does to one block, in order
DropEvents == <<"read_header", "drop_next", "deallocate">>

\* the deallocate call of Drop for the block at h, beside what allocate recorded
Deallocate(hd, h) ==
    [block |-> h, size |-> BlockSize(hd[h].value_size), align |-> MaxAlign,
     asize |-> heap[h].size, aalign |-> heap[h].align, events |-> DropEvents]

\* a free that leaves the next link on the header it drops, against which the
\* single release is checked
LeaveNext(hd, cur) == hd

\* header.next.take(): the header at cur gives up its next link
TakeNext(hd, cur) == [hd EXCEPT ![cur].next = None]

\* an unlinking that leaves the predecessor's link alone, against which the
\* splice is checked
NoReplace(hd, loc, succ) == hd

\* mem::replace(current, ..): the link the cursor points at gets succ (the
\* link of sweep's local first is not in a header)
Replace(hd, loc, succ) == IF loc = None THEN hd ELSE [hd EXCEPT ![loc].next = succ]

\* a cursor that moves on to the successor's link after a free, against which
\* the single examination is checked
AdvanceAfterFree(loc, succ) == succ

\* the cursor after a free: `continue` leaves it on the link it pointed at
AfterFree(loc, succ) == loc

\* what sweep's cursor points at
Deref(loc) == IF loc = None THEN first ELSE header[loc].next

\* ------------------------------------------------------------- Init
InitGc(limit) ==
    /\ values = None
    /\ header = [a \in Addr |-> NoHeader]
    /\ payload = [a \in Addr |-> <<>>]
    /\ heap = [a \in Addr |-> FreeBlock]
    /\ allocated_objects = 0
    /\ collect_limit = limit
    /\ borrowed = FALSE
    /\ pc = "idle"
    /\ op = "new"
    /\ arg = <<>>
    /\ stack = <<>>
    /\ first = None
    /\ maybe_header = None
    /\ roots = <<>>
    /\ handles = {}
    /\ list0 = <<>>
    /\ reach0 = {}
    /\ count0 = 0
    /\ visits = [a \in Addr |-> 0]
    /\ examined = [a \in Addr |-> 0]
    /\ freed = <<>>
    /\ ncollect = 0
    /\ newobj = None
    /\ fresh = FALSE
    /\ shared = None
    /\ stage = 0

\* the collector, in the build whose layout value_offset computed
InitWith(limit) ==
    /\ InitGc(limit)
    /\ hs = HeaderSize
    /\ max_align = MaxAlign
    /\ offset = value_offset

\* some header size and some alignment, value_offset not yet called
InitOffset ==
    /\ InitGc(DefaultCollectLimit)
    /\ hs \in 0..MaxHeaderSize
    /\ max_align \in 1..MaxAlignment
    /\ offset = -1

\* GcHeader::value_offset is called
ComputeOffset ==
    /\ offset = -1
    /\ offset' = ValueOffset(hs, max_align)
    /\ UNCHANGED <<hs, max_align, prog, ctl, env, hist>>

\* a collector whose threshold the bounded heap can reach
InitLow == InitWith(LowCollectLimit)

\* a collector constructed with a threshold other than the one of Gc::new
InitBelowDefault == InitWith(DefaultCollectLimit - 1)

\* Gc::new
Init == InitWith(DefaultCollectLimit)

\* ---------------------------------------------------------- operations
\* a block is followed only while the caller removes references and collects
Forget ==
    /\ shared' = None
    /\ stage' = 0

\* the state an operation records when it is called
Enter(o, value) ==
    /\ op' = o
    /\ arg' = value
    /\ list0' = List
    /\ reach0' = Reach
    /\ count0' = allocated_objects
    /\ visits' = [a \in Addr |-> 0]
    /\ examined' = [a \in Addr |-> 0]
    /\ freed' = <<>>
    /\ ncollect' = 0

\* an alloc that does not hand the old list to the new header, against which
\* the prepending is checked
GcAllocUnlinked(value, a) ==
    /\ heap' = [heap EXCEPT ![a] = [size |-> BlockSize(SizeOfT), align |-> MaxAlign]]
    /\ header' = [header EXCEPT ![a] = NewHeader(SizeOfT)]
    /\ allocated_objects' = allocated_objects + 1
    /\ payload' = [payload EXCEPT ![a] = value]
    /\ values' = a
    /\ handles' = handles \cup {HeaderValue(a)}
    /\ newobj' = a

\* Gc_::alloc of value into the block allocate returns at a
GcAlloc(value, a) ==
    /\ heap' = [heap EXCEPT ![a] = [size |-> BlockSize(SizeOfT), align |-> MaxAlign]]
    /\ header' = [header EXCEPT ![a] = [NewHeader(SizeOfT) EXCEPT !.next = values]]
    /\ allocated_objects' = allocated_objects + 1
    /\ payload' = [payload EXCEPT ![a] = value]
    /\ values' = a
    /\ handles' = handles \cup {HeaderValue(a)}
    /\ newobj' = a

\* Gc::alloc
Alloc ==
    /\ UNCHANGED layout
    /\ pc = "idle"
    /\ ~borrowed
    /\ \E value \in SeqsUpTo(handles, MaxFields), a \in FreeAddrs :
        /\ Stored(Addr) + Len(value) <= MaxRefs
        /\ Enter("alloc", value)
        /\ GcAlloc(value, a)
    /\ pc' = "ret"
    /\ fresh' = FALSE
    /\ Forget
    /\ UNCHANGED <<collect_limit, borrowed, stack, first, maybe_header, roots>>

\* Gc::collect: the borrow is taken and roots.traverse begins
Collect ==
    /\ UNCHANGED layout
    /\ pc = "idle"
    /\ ~borrowed
    /\ Enter("collect", <<>>)
    /\ borrowed' = TRUE
    /\ stack' = <<roots>>
    /\ pc' = "mark"
    /\ newobj' = None
    /\ UNCHANGED <<values, header, payload, heap, allocated_objects, collect_limit,
                   first, maybe_header, roots, handles, fresh, mon>>

\* a collection that also marks from the value to be stored, against which the
\* root set of the automatic collection is checked
RootsAndValue(value) == roots \o value

\* what alloc_and_collect hands to collect to be traversed: roots
CollectRoots(value) == roots

\* Gc::alloc_and_collect: collect first when the limit is reached, else alloc
AllocAndCollect ==
    /\ UNCHANGED layout
    /\ pc = "idle"
    /\ ~borrowed
    /\ \E value \in SeqsUpTo(handles, MaxFields) :
        /\ Stored(Addr) + Len(value) <= MaxRefs
        /\ Enter("alloc_and_collect", value)
        /\ IF ShouldCollect
           THEN /\ Cardinality(Reach \cap Allocated) < MaxObjs
                /\ borrowed' = TRUE
                /\ stack' = <<CollectRoots(value)>>
                /\ pc' = "mark"
                /\ newobj' = None
                /\ UNCHANGED <<values, header, payload, heap, allocated_objects, handles>>
           ELSE /\ \E a \in FreeAddrs : GcAlloc(value, a)
                /\ pc' = "ret"
                /\ UNCHANGED <<borrowed, stack>>
    /\ fresh' = FALSE
    /\ Forget
    /\ UNCHANGED <<collect_limit, first, maybe_header, roots>>

\* the frame a traverse call leaves after it handed the child to its callback
Rest == [stack EXCEPT ![Len(stack)] = Tail(@)]

\* Gc_::mark of an unmarked value: set the flag, traverse the value
MarkVisit ==
    /\ UNCHANGED layout
    /\ pc = "mark"
    /\ stack # <<>>
    /\ stack[Len(stack)] # <<>>
    /\ LET h == gc_header(Head(stack[Len(stack)])) IN
        /\ h \in Allocated
        /\ ~AlreadyMarked(h)
        /\ header' = [header EXCEPT ![h].marked = TRUE]
        /\ visits' = [visits EXCEPT ![h] = @ + 1]
        /\ stack' = Append(Rest, Children(h))
    /\ UNCHANGED <<values, payload, heap, allocated_objects, collect_limit, borrowed,
                   pc, op, arg, first, maybe_header, env,
                   list0, reach0, count0, examined, freed, ncollect, newobj, fresh, mon>>

\* Gc_::mark of a marked value: return at once
MarkSkip ==
    /\ UNCHANGED layout
    /\ pc = "mark"
    /\ stack # <<>>
    /\ stack[Len(stack)] # <<>>
    /\ LET h == gc_header(Head(stack[Len(stack)])) IN
        /\ h \in Allocated
        /\ AlreadyMarked(h)
    /\ stack' = Rest
    /\ UNCHANGED <<prog, pc, op, arg, first, maybe_header, env, hist>>

\* Gc_::mark of a dangling handle reads a released block: the process faults,
\* or the flag reads true, or it reads false and the released payload slot is
\* traversed, holding nothing or a stale reference to a block
MarkDangling ==
    /\ UNCHANGED layout
    /\ pc = "mark"
    /\ stack # <<>>
    /\ stack[Len(stack)] # <<>>
    /\ gc_header(Head(stack[Len(stack)])) \notin Allocated
    /\ \/ /\ pc' = "crashed"
          /\ stack' = stack
       \/ /\ pc' = pc
          /\ stack' = Rest
       \/ /\ pc' = pc
          /\ \E stale \in {<<>>} \cup {<<HeaderValue(b)>> : b \in Allocated} :
                stack' = Append(Rest, stale)
    /\ UNCHANGED <<prog, op, arg, first, maybe_header, env, hist>>

\* a traverse call has handed out all its children and returns
TraverseReturn ==
    /\ UNCHANGED layout
    /\ pc = "mark"
    /\ stack # <<>>
    /\ stack[Len(stack)] = <<>>
    /\ stack' = SubSeq(stack, 1, Len(stack) - 1)
    /\ UNCHANGED <<prog, pc, op, arg, first, maybe_header, env, hist>>

\* Gc_::sweep begins: first takes the list, the cursor points at first
SweepBegin ==
    /\ UNCHANGED layout
    /\ pc = "mark"
    /\ stack = <<>>
    /\ first' = values
    /\ values' = None
    /\ maybe_header' = None
    /\ pc' = "sweep"
    /\ UNCHANGED <<header, payload, heap, allocated_objects, collect_limit, borrowed,
                   op, arg, stack, env, hist>>

\* sweep at an unmarked header: splice it out of the list and free it
SweepFree ==
    /\ UNCHANGED layout
    /\ pc = "sweep"
    /\ Deref(maybe_header) # None
    /\ Unreached(Deref(maybe_header))
    /\ LET cur == Deref(maybe_header)
           succ == header[cur].next
           taken == TakeNext(header, cur)
           gone == DropAllocPtr(taken, cur, MaxObjs + 1)
           spliced == Replace(taken, maybe_header, succ)
       IN /\ first' = IF maybe_header = None THEN succ ELSE first
          /\ maybe_header' = AfterFree(maybe_header, succ)
          /\ header' = [a \in Addr |-> IF a \in Range(gone) THEN NoHeader ELSE spliced[a]]
          /\ payload' = [a \in Addr |-> IF a \in Range(gone) THEN <<>> ELSE payload[a]]
          /\ heap' = [a \in Addr |-> IF a \in Range(gone) THEN FreeBlock ELSE heap[a]]
          /\ allocated_objects' = Decrement(allocated_objects)
          /\ freed' = freed \o [i \in 1..Len(gone) |-> Deallocate(taken, gone[i])]
          /\ examined' = [examined EXCEPT ![cur] = @ + 1]
    /\ UNCHANGED <<values, collect_limit, borrowed, pc, op, arg, stack, env,
                   list0, reach0, count0, visits, ncollect, newobj, fresh, mon>>

\* sweep at a marked header: clear the flag and move the cursor to its next
SweepKeep ==
    /\ UNCHANGED layout
    /\ pc = "sweep"
    /\ Deref(maybe_header) # None
    /\ ~Unreached(Deref(maybe_header))
    /\ LET cur == Deref(maybe_header) IN
        /\ header' = [header EXCEPT ![cur].marked = SweptMark]
        /\ maybe_header' = cur
        /\ examined' = [examined EXCEPT ![cur] = @ + 1]
    /\ UNCHANGED <<values, payload, heap, allocated_objects, collect_limit, borrowed,
                   pc, op, arg, stack, first, env,
                   list0, reach0, count0, visits, freed, ncollect, newobj, fresh, mon>>

\* sweep at the end of the list: the list goes back to values, collect returns
SweepBreak ==
    /\ UNCHANGED layout
    /\ pc = "sweep"
    /\ Deref(maybe_header) = None
    /\ values' = first
    /\ first' = None
    /\ maybe_header' = None
    /\ pc' = "ret"
    /\ borrowed' = (op = "alloc_and_collect")
    /\ ncollect' = ncollect + 1
    /\ UNCHANGED <<header, payload, heap, allocated_objects, collect_limit,
                   op, arg, stack, env,
                   list0, reach0, count0, visits, examined, freed, newobj, fresh, mon>>

\* how many referrers a block had in the collection that just returned
Referrers(a) ==
    (IF HeaderValue(a) \in Range(roots) THEN 1 ELSE 0)
    + Cardinality({b \in (reach0 \cap Range(list0)) \ {a} :
                      HeaderValue(a) \in Range(payload[b])})

\* the survivors of that collection that had several referrers
Candidates == {c \in Range(List) : Referrers(c) >= 2}

\* the block followed after that collection and its stage: 1 when it survived
\* with several referrers, 2 when it survived with a single one after that
Follow ==
    IF op # "collect" THEN <<None, 0>>
    ELSE IF shared = None
         THEN IF Candidates = {} THEN <<None, 0>>
              ELSE <<CHOOSE c \in Candidates : \A d \in Candidates : c <= d, 1>>
    ELSE IF shared \notin Range(List) THEN <<None, 0>>
    ELSE IF Referrers(shared) >= 2 THEN <<shared, 1>>
    ELSE <<shared, 2>>

\* control goes back to the caller: to the alloc of alloc_and_collect after its
\* collection, else out of the public operation
Resume ==
    /\ UNCHANGED layout
    /\ pc = "ret"
    /\ IF borrowed
       THEN /\ \E a \in FreeAddrs : GcAlloc(arg, a)
            /\ borrowed' = FALSE
            /\ UNCHANGED <<pc, op, arg, list0, reach0, count0, visits, examined, freed,
                           ncollect, fresh, mon>>
       ELSE /\ pc' = "idle"
            /\ op' = "none"
            /\ arg' = <<>>
            /\ list0' = <<>>
            /\ reach0' = {}
            /\ count0' = 0
            /\ visits' = [a \in Addr |-> 0]
            /\ examined' = [a \in Addr |-> 0]
            /\ freed' = <<>>
            /\ ncollect' = 0
            /\ newobj' = None
            /\ fresh' = (op = "collect")
            /\ shared' = Follow[1]
            /\ stage' = Follow[2]
            /\ UNCHANGED <<values, header, payload, heap, allocated_objects, handles, borrowed>>
    /\ UNCHANGED <<collect_limit, stack, first, maybe_header, roots>>

\* a RefCell that lends its content again while it is lent, against which the
\* rejection of nested calls is checked
BorrowNeverFails == FALSE

\* self.gc.borrow_mut() fails, and the task panics, when the collector state is
\* already mutably borrowed
BorrowMutFails == borrowed

\* a traverse of roots or of a value calls alloc on the collector that is
\* collecting (alloc_and_collect and collect begin with the same borrow_mut):
\* the borrow fails and the panic unwinds the traverse calls and the operation
\* (what was recorded of it is let go); were it granted, Gc_::alloc would run
\* on the state mark is working on
NestedCall ==
    /\ UNCHANGED layout
    /\ pc = "mark"
    /\ stack # <<>>
    /\ IF BorrowMutFails
       THEN /\ pc' = "panicked"
            /\ stack' = <<>>
            /\ arg' = <<>>
            /\ list0' = <<>>
            /\ reach0' = {}
            /\ count0' = 0
            /\ visits' = [a \in Addr |-> 0]
            /\ fresh' = FALSE
            /\ Forget
            /\ UNCHANGED <<values, header, payload, heap, allocated_objects, handles, newobj>>
       ELSE /\ \E a \in FreeAddrs : GcAlloc(<<>>, a)
            /\ UNCHANGED <<pc, stack, arg, list0, reach0, count0, visits, fresh, mon>>
    /\ UNCHANGED <<collect_limit, borrowed, op, first, maybe_header, roots,
                   examined, freed, ncollect>>

\* the collector is dropped: Gc_.values is dropped, and Drop for AllocPtr
\* releases the chain it heads; allocated_objects is not touched
DropGc ==
    /\ UNCHANGED layout
    /\ pc = "idle"
    /\ ~borrowed
    /\ LET gone == DropAllocPtr(header, values, MaxObjs + 1) IN
        /\ freed' = [i \in 1..Len(gone) |-> Deallocate(header, gone[i])]
        /\ header' = [a \in Addr |-> IF a \in Range(gone) THEN NoHeader ELSE header[a]]
        /\ payload' = [a \in Addr |-> IF a \in Range(gone) THEN <<>> ELSE payload[a]]
        /\ heap' = [a \in Addr |-> IF a \in Range(gone) THEN FreeBlock ELSE heap[a]]
    /\ values' = None
    /\ pc' = "dropped"
    /\ op' = "drop"
    /\ list0' = List
    /\ reach0' = {}
    /\ count0' = allocated_objects
    /\ fresh' = FALSE
    /\ Forget
    /\ UNCHANGED <<allocated_objects, collect_limit, borrowed, arg, stack, first, maybe_header,
                   env, visits, examined, ncollect, newobj>>

\* ------------------------------------------------------------ mutator
\* the caller pushes a handle on its root stack
PushRoot ==
    /\ UNCHANGED layout
    /\ pc = "idle"
    /\ Len(roots) < MaxRoots
    /\ \E p \in handles : roots' = Append(roots, p)
    /\ fresh' = FALSE
    /\ Forget
    /\ UNCHANGED <<prog, ctl, handles, list0, reach0, count0, visits, examined, freed,
                   ncollect, newobj>>

\* the caller pops its root stack
PopRoot ==
    /\ UNCHANGED layout
    /\ pc = "idle"
    /\ roots # <<>>
    /\ roots' = SubSeq(roots, 1, Len(roots) - 1)
    /\ fresh' = FALSE
    /\ UNCHANGED <<prog, ctl, handles, list0, reach0, count0, visits, examined, freed,
                   ncollect, newobj, mon>>

\* the caller pushes a handle on the vector of an object it holds (DerefMut)
PushField ==
    /\ UNCHANGED layout
    /\ pc = "idle"
    /\ \E a \in Allocated, p \in handles :
        /\ Len(payload[a]) < MaxFields
        /\ Stored(Addr) < MaxRefs
        /\ payload' = [payload EXCEPT ![a] = Append(@, p)]
    /\ fresh' = FALSE
    /\ Forget
    /\ UNCHANGED <<values, header, heap, allocated_objects, collect_limit, borrowed, ctl, env,
                   list0, reach0, count0, visits, examined, freed, ncollect, newobj>>

\* the caller pops the vector of an object it holds
PopField ==
    /\ UNCHANGED layout
    /\ pc = "idle"
    /\ \E a \in Allocated :
        /\ payload[a] # <<>>
        /\ payload' = [payload EXCEPT ![a] = SubSeq(@, 1, Len(@) - 1)]
    /\ fresh' = FALSE
    /\ UNCHANGED <<values, header, heap, allocated_objects, collect_limit, borrowed, ctl, env,
                   list0, reach0, count0, visits, examined, freed, ncollect, newobj, mon>>

\* ------------------------------------------------------ specifications
Step ==
    \/ MarkVisit
    \/ MarkSkip
    \/ MarkDangling
    \/ TraverseReturn
    \/ SweepBegin
    \/ SweepFree
    \/ SweepKeep
    \/ SweepBreak
    \/ Resume

Next ==
    \/ Alloc
    \/ Collect
    \/ AllocAndCollect
    \/ Step
    \/ PushRoot
    \/ PopRoot
    \/ PushField
    \/ PopField
    \/ DropGc
    \/ NestedCall

Spec == Init /\ [][Next]_vars

SpecLow == InitLow /\ [][Next]_vars

\* value_offset alone, over header sizes and alignments
SpecOffset == InitOffset /\ [][ComputeOffset]_vars

\* ---------------------------------------------------------- properties
\* the roots kept the contract: no handle reachable at the call was dangling
Safe0 == reach0 \subseteq Range(list0)

\* a collection has just returned and nothing was allocated after it
Collected == pc = "ret" /\ ncollect = 1 /\ newobj = None

\* the blocks this operation released
Released == {freed[i].block : i \in 1..Len(freed)}

\* C1: when a collection returns, every object that was in the list and
\* reachable from roots through traverse when it was called is still linked in
\* the list; with every object rooted the list keeps its length.
NoLiveObjectFreed ==
    Collected =>
        /\ (reach0 \cap Range(list0)) \subseteq Range(List)
        /\ (Range(list0) \subseteq reach0 => num_objects = Len(list0))

\* a collection returned that released a block and kept a block no root names
LiveObjectsKept ==
    /\ Collected
    /\ op = "collect"
    /\ Released # {}
    /\ \E a \in Range(List) : HeaderValue(a) \notin Range(roots) /\ visits[a] = 1
    /\ (reach0 \cap Range(list0)) \subseteq Range(List)

\* C2: when a collection called with roots that name no released block
\* returns, the list holds exactly the objects that were reachable from roots
\* at the call; with no roots the list is empty.
AllGarbageReclaimed ==
    (Collected /\ Safe0) =>
        /\ Range(List) = reach0
        /\ (roots = <<>> => values = None)

\* a collection with an empty root stack emptied a list of several objects
GarbageReclaimed ==
    /\ Collected
    /\ op = "collect"
    /\ roots = <<>>
    /\ Len(list0) >= 2
    /\ Released = Range(list0)
    /\ values = None

\* a collection is under way: the mark phase or the sweep loop is running
InCollect == pc \in {"mark", "sweep"}

\* the steps of mark and sweep
CollectStep ==
    \/ MarkVisit
    \/ MarkSkip
    \/ MarkDangling
    \/ TraverseReturn
    \/ SweepBegin
    \/ SweepFree
    \/ SweepKeep
    \/ SweepBreak

\* the children still to be handed out by the traverse calls in progress, each
\* counted twice, and the calls themselves
RECURSIVE Weight(_)
Weight(st) == IF st = <<>> THEN 0 ELSE 2 * Len(Head(st)) + 1 + Weight(Tail(st))

\* the work a collection has left: the unmarked blocks and the pending calls of
\* the mark phase, then the headers the sweep cursor has before it
Rank ==
    CASE pc = "mark" ->
            Cardinality({a \in Allocated : ~header[a].marked}) * (2 * MaxFields + 2)
            + Weight(stack) + MaxObjs + 2
      [] pc = "sweep" -> Len(Chain(header, Deref(maybe_header), MaxObjs + 1)) + 1
      [] OTHER -> 0

\* the block at a lies on a reference cycle (a self-reference included)
OnCycle(a) == a \in Closure({gc_header(p) : p \in Range(payload[a])})

\* C3: a collection called with roots that name no released block terminates,
\* cycles and self-references included: while it runs a step of mark or sweep
\* is always possible, every step strictly lowers a natural-number measure of
\* the work left, and no step releases a reachable block that lies on a cycle
\* or releases a block twice.
CollectTerminates ==
    /\ []((InCollect /\ Safe0) => (Rank >= 0 /\ ENABLED CollectStep))
    /\ [][(InCollect /\ Safe0) =>
            /\ Rank' < Rank
            /\ \A a \in reach0 \cap Allocated : OnCycle(a) => a \in Allocated'
            /\ \A i, j \in 1..Len(freed') : freed'[i].block = freed'[j].block => i = j]_vars

\* a collection returned with a two-object cycle of which one end is rooted,
\* and a self-reference, all visited once and still in the list
CycleSurvived ==
    /\ Collected
    /\ op = "collect"
    /\ \E a, b \in Range(List) :
        /\ a # b
        /\ HeaderValue(b) \in Range(payload[a])
        /\ HeaderValue(a) \in Range(payload[b])
        /\ HeaderValue(b) \in Range(payload[b])
        /\ HeaderValue(a) \in Range(roots)
        /\ HeaderValue(b) \notin Range(roots)
        /\ visits[a] = 1
        /\ visits[b] = 1

\* the mark phase is over
MarkDone == pc = "sweep" \/ (pc = "ret" /\ ncollect = 1)

\* C4: in one collection no block has its flag set and its value traversed
\* more than once; when the roots name no released block, only reachable
\* objects are visited, and once the mark phase is over every reachable object
\* was visited exactly once and, as sweep begins, carries the flag, while no
\* unreachable object was visited or carries it.
MarkedExactlyOnce ==
    /\ \A a \in Addr : visits[a] <= 1
    /\ (Safe0 /\ pc = "mark") =>
            \A a \in Addr : visits[a] = 1 => (a \in reach0 /\ header[a].marked)
    /\ (Safe0 /\ MarkDone) =>
            \A a \in Addr : visits[a] = (IF a \in reach0 THEN 1 ELSE 0)
    /\ (Safe0 /\ pc = "sweep" /\ examined = [a \in Addr |-> 0]) =>
            \A a \in Range(list0) : header[a].marked <=> a \in reach0

\* the mark phase ended having met an object through several references and
\* having left an unreachable object alone
SharedVisitedOnce ==
    /\ pc = "sweep"
    /\ examined = [a \in Addr |-> 0]
    /\ Safe0
    /\ \E a \in reach0 : Referrers(a) >= 2 /\ visits[a] = 1 /\ header[a].marked
    /\ \E b \in Range(list0) \ reach0 : visits[b] = 0 /\ ~header[b].marked

\* C5: when a collection called with roots that name no released block
\* returns, an object of the list is still in the list exactly if a reference
\* to it was left at the call, in the roots or in another reachable object:
\* an object with several referrers survives while one is left and is
\* released by the first collection that runs after the last one is removed.
SharedUntilLastPath ==
    (Collected /\ Safe0) =>
        \A c \in Range(list0) : c \in Range(List) <=> Referrers(c) >= 1

\* an object survived a collection with several referrers, the next one with a
\* single referrer, and is released by this one, only references having been
\* removed in between
SharedThenReclaimed ==
    /\ Collected
    /\ op = "collect"
    /\ Safe0
    /\ stage = 2
    /\ shared \in Range(list0) \ Range(List)
    /\ shared \in Released
    /\ Referrers(shared) = 0

\* no operation is running inside the collector
Returned == pc = "idle" \/ (pc = "ret" /\ ~borrowed)

\* C6: in every state reached after new, alloc, alloc_and_collect or collect
\* has returned, every header of the allocation list has its flag clear, so
\* each mark phase starts from an all-unmarked list.
MarksClearBetweenOperations ==
    /\ Returned => \A a \in Range(List) : ~header[a].marked
    /\ (pc = "mark" /\ visits = [a \in Addr |-> 0]) =>
            \A a \in Range(List) : ~header[a].marked

\* a collection returned with a survivor it had marked
SurvivorUnmarked ==
    /\ pc = "ret"
    /\ op = "collect"
    /\ \E a \in Range(List) : visits[a] = 1 /\ examined[a] = 1 /\ ~header[a].marked

\* C7: a collection called right after a collection returned, with the same
\* roots (naming no released block) and an unchanged object graph, releases no
\* object and leaves the allocation list, the flags and allocated_objects as
\* the first one left them.
CollectIdempotent ==
    (pc = "ret" /\ op = "collect" /\ fresh /\ Safe0) =>
        /\ freed = <<>>
        /\ List = list0
        /\ allocated_objects = count0
        /\ \A a \in Range(List) : ~header[a].marked

\* a second collection in a row returned, having visited the survivors of the
\* first, one of them reached through another object
SecondCollectSame ==
    /\ pc = "ret"
    /\ op = "collect"
    /\ fresh
    /\ Safe0
    /\ Len(List) >= 2
    /\ \E a \in Range(List) : HeaderValue(a) \notin Range(roots) /\ visits[a] = 1

\* C8: alloc prepends exactly one new unmarked header to the allocation list:
\* the new header is the list head, its next is the previous head, the other
\* headers (membership, order, flags) are as they were, allocated_objects
\* grows by exactly 1, no block is released and no collection runs, whatever
\* the relation between allocated_objects and collect_limit.
AllocPrependsOne ==
    [][(pc = "idle" /\ op' = "alloc") =>
        /\ pc' = "ret"
        /\ values' \in Addr \ Range(List)
        /\ values' \notin Allocated
        /\ newobj' = values'
        /\ header'[values'] = [next |-> values, value_size |-> SizeOfT, marked |-> FALSE]
        /\ \A a \in Addr \ {values'} : header'[a] = header[a] /\ payload'[a] = payload[a]
        /\ List' = <<values'>> \o List
        /\ allocated_objects' = allocated_objects + 1
        /\ Allocated' = Allocated \cup {values'}
        /\ collect_limit' = collect_limit
        /\ freed' = <<>>
        /\ ncollect' = 0
        /\ visits' = [a \in Addr |-> 0]
        /\ examined' = [a \in Addr |-> 0]
        /\ ~borrowed']_vars

\* alloc returned with the limit reached on entry, the list grown by its head
AllocPastLimit ==
    /\ pc = "ret"
    /\ op = "alloc"
    /\ count0 >= collect_limit
    /\ list0 # <<>>
    /\ List = <<newobj>> \o list0
    /\ allocated_objects = count0 + 1
    /\ ncollect = 0

\* alloc_and_collect has returned
AllocAndCollectReturned == pc = "ret" /\ op = "alloc_and_collect" /\ ~borrowed

\* C9: alloc_and_collect runs one full collection exactly if allocated_objects
\* >= collect_limit on entry, and runs it before the new object exists: while
\* it collects no block is allocated or counted beyond those of entry; with
\* roots that name no released block, allocated_objects on return is the
\* number of objects reachable from roots on entry plus 1; below the limit
\* roots is not traversed, no header is examined, no block is released, and the
\* call has the effect of alloc(value).
CollectsOnceAtLimit ==
    /\ AllocAndCollectReturned =>
            /\ ncollect = (IF count0 >= collect_limit THEN 1 ELSE 0)
            /\ newobj = values
            /\ payload[newobj] = arg
            /\ ~header[newobj].marked
            /\ examined[newobj] = 0 \/ newobj \in Released
    /\ (op = "alloc_and_collect" /\ (InCollect \/ (pc = "ret" /\ borrowed))) =>
            /\ count0 >= collect_limit
            /\ newobj = None
            /\ Allocated \subseteq Range(list0)
            /\ allocated_objects <= count0
    /\ (AllocAndCollectReturned /\ count0 >= collect_limit /\ Safe0) =>
            /\ allocated_objects = Cardinality(reach0) + 1
            /\ Range(List) = reach0 \cup {newobj}
    /\ (AllocAndCollectReturned /\ count0 < collect_limit) =>
            /\ visits = [a \in Addr |-> 0]
            /\ examined = [a \in Addr |-> 0]
            /\ freed = <<>>
            /\ List = <<newobj>> \o list0
            /\ newobj \notin Range(list0)
            /\ header[newobj].next = (IF list0 = <<>> THEN None ELSE list0[1])
            /\ allocated_objects = count0 + 1

\* alloc_and_collect returned from a heap at its limit, having released
\* unrooted objects and kept a rooted one before it allocated
CollectedBeforeAlloc ==
    /\ AllocAndCollectReturned
    /\ count0 >= collect_limit
    /\ Safe0
    /\ ncollect = 1
    /\ Released # {}
    /\ reach0 # {}
    /\ allocated_objects = Cardinality(reach0) + 1
    /\ allocated_objects <= count0

\* C10: every block sweep has released had its payload's destructor run exactly
\* once, before deallocate, and was deallocated with the size and alignment it
\* was allocated with.
DestructorThenRelease ==
    \A i \in 1..Len(freed) :
        LET e == freed[i].events IN
        /\ Cardinality({k \in 1..Len(e) : e[k] = "drop_value"}) = 1
        /\ \A k, l \in 1..Len(e) : (e[k] = "drop_value" /\ e[l] = "deallocate") => k < l
        /\ freed[i].size = freed[i].asize
        /\ freed[i].align = freed[i].aalign

\* an allocating operation has returned its handle
AllocReturned == pc = "ret" /\ op \in {"alloc", "alloc_and_collect"} /\ ~borrowed

\* C11: the handle alloc returns is the payload address of the list head:
\* gc_header of it is the header at the head of the allocation list, and
\* gc_header undoes GcHeader::value for every allocated block (the payload
\* address being another address than the header's).
HandleNamesHead ==
    /\ AllocReturned =>
            /\ HeaderValue(newobj) \in handles
            /\ gc_header(HeaderValue(newobj)) = values
            /\ List # <<>> /\ gc_header(HeaderValue(newobj)) = List[1]
    /\ \A a \in Allocated :
            /\ gc_header(HeaderValue(a)) = a
            /\ HeaderValue(a) # a
            /\ HeaderValue(a) = a + value_offset

\* alloc returned a handle to a new head put before older blocks
HandleOfNewHead ==
    /\ AllocReturned
    /\ op = "alloc"
    /\ Len(List) >= 2
    /\ gc_header(HeaderValue(newobj)) = List[1]
    /\ HeaderValue(newobj) \notin Addr

\* C12: new() yields an empty allocation list, allocated_objects = 0 and
\* collect_limit = 100, and collect_limit is 100 in every state reached
\* through alloc, alloc_and_collect and collect.
CollectLimitStays100 ==
    /\ collect_limit = 100
    /\ op = "new" => (values = None /\ List = <<>> /\ allocated_objects = 0 /\ ~borrowed)

\* a collection released a block of a full heap with the limit still 100
LimitKeptThroughOperations ==
    /\ pc = "ret"
    /\ op = "collect"
    /\ Len(list0) = MaxObjs
    /\ Released # {}
    /\ List # <<>>
    /\ collect_limit = 100

\* a sweep has run to its end in this operation
Swept == pc = "ret" /\ ncollect = 1

\* C13: sweep examines every node of the allocation list exactly once: no
\* header is examined twice; while the loop runs the examined nodes are a
\* prefix of the list as it was and the cursor is at the node after them, or
\* at none after the last; when it has stopped every node was examined.
SweepExaminesOnce ==
    /\ \A a \in Addr : examined[a] <= 1
    /\ pc = "sweep" =>
            \E k \in 0..Len(list0) :
                /\ \A i \in 1..Len(list0) : examined[list0[i]] = (IF i <= k THEN 1 ELSE 0)
                /\ Deref(maybe_header) = (IF k < Len(list0) THEN list0[k + 1] ELSE None)
    /\ Swept => \A a \in Addr : examined[a] = (IF a \in Range(list0) THEN 1 ELSE 0)

\* a sweep released two consecutive nodes at the head and then examined and
\* kept the node behind them
ExaminedAfterRemovals ==
    /\ Swept
    /\ op = "collect"
    /\ Len(list0) = 3
    /\ {list0[1], list0[2]} \subseteq Released
    /\ List = <<list0[3]>>
    /\ examined[list0[3]] = 1

\* the nodes of s that mark had flagged
MarkedOf(s) == SelectSeq(s, LAMBDA a : visits[a] = 1)

\* the nodes of s that sweep has not examined or that mark had flagged
PendingOrMarkedOf(s) == SelectSeq(s, LAMBDA a : examined[a] = 0 \/ visits[a] = 1)

\* C14: after sweep the allocation list is the subsequence of the nodes that
\* were marked before it, in their order, and its head is the first of them or
\* none; while sweep runs its local list is the list as it was without the
\* unmarked nodes examined so far, each spliced out of the link before it.
SweepKeepsMarkedInOrder ==
    /\ pc = "sweep" =>
            /\ values = None
            /\ Chain(header, first, MaxObjs + 1) = PendingOrMarkedOf(list0)
            /\ \A a \in Range(list0) : examined[a] = 0 => (header[a].marked <=> visits[a] = 1)
    /\ (Swept /\ newobj = None) =>
            /\ List = MarkedOf(list0)
            /\ values = (IF MarkedOf(list0) = <<>> THEN None ELSE MarkedOf(list0)[1])
            /\ first = None

\* a sweep spliced the middle node out of a list of three
MiddleSplicedOut ==
    /\ Swept
    /\ op = "collect"
    /\ Len(list0) = 3
    /\ Released = {list0[2]}
    /\ List = <<list0[1], list0[3]>>
    /\ header[list0[1]].next = list0[3]

\* C15: in every state reached after a public operation returns,
\* allocated_objects is the number of headers linked in the allocation list;
\* in every state it is the number of blocks allocated and not released, so
\* the decrement in free never takes it below zero.
CountIsListLength ==
    /\ Returned => allocated_objects = num_objects
    /\ pc # "dropped" => allocated_objects = Cardinality(Allocated)
    /\ allocated_objects >= 0

\* alloc_and_collect returned having released blocks down to one and allocated
CountFollowsList ==
    /\ AllocAndCollectReturned
    /\ Len(freed) >= 2
    /\ count0 = MaxObjs
    /\ num_objects = 2
    /\ allocated_objects = 2

\* the release records a step adds
NewRecords ==
    IF Len(freed') >= Len(freed) THEN SubSeq(freed', Len(freed) + 1, Len(freed')) ELSE <<>>

\* C16: every allocated block is released exactly once: a step releases only
\* blocks that are allocated, each once, and records each release; a free of
\* sweep releases the node at the cursor and no other; between operations and
\* inside sweep every allocated block is linked in the list (or sweep's local
\* list), and dropping the collector releases every block of the list once
\* and leaves none allocated.
ReleasedExactlyOnce ==
    /\ [](Returned => (Allocated = Range(List) /\ Cardinality(Allocated) = Len(List)))
    /\ [](pc = "sweep" => Allocated = Range(Chain(header, first, MaxObjs + 1)))
    /\ [](pc = "dropped" =>
            /\ Allocated = {}
            /\ Released = Range(list0)
            /\ Len(freed) = Len(list0))
    /\ [][/\ {NewRecords[i].block : i \in 1..Len(NewRecords)} = Allocated \ Allocated'
          /\ Len(NewRecords) = Cardinality(Allocated \ Allocated')
          /\ pc = "sweep" =>
                /\ Len(NewRecords) <= 1
                /\ \A i \in 1..Len(NewRecords) : NewRecords[i].block = Deref(maybe_header)]_vars

\* the collector was dropped with two blocks in its list after a sweep had
\* released a third, and no block is left allocated
AllReleasedAtDrop ==
    /\ pc = "dropped"
    /\ Cardinality(handles) = 3
    /\ Len(list0) = 2
    /\ Len(freed) = 2
    /\ freed[1].block = list0[2]
    /\ freed[2].block = list0[1]
    /\ Allocated = {}

\* the blocks the value of alloc_and_collect names that were in the list and
\* not reachable from roots when it was called
ValueOnly == {gc_header(p) : p \in Range(arg)} \cap (Range(list0) \ reach0)

\* C17: the value argument of alloc_and_collect is not a root: the automatic
\* collection traverses roots only, so (roots naming no released block) every
\* object not reachable from roots at the call, those reachable from value
\* among them, is released before value is stored, and the new object then
\* holds the handles of value, released blocks included.
ValueIsNotARoot ==
    /\ []((op = "alloc_and_collect" /\ Swept /\ Safe0) =>
            /\ Range(list0) \ reach0 \subseteq Released
            /\ ValueOnly \subseteq Released
            /\ borrowed => (newobj = None /\ ValueOnly \cap Allocated = {})
            /\ ~borrowed => payload[newobj] = arg)
    /\ [][(pc = "idle" /\ pc' = "mark" /\ op' = "alloc_and_collect") =>
            /\ stack' = <<roots>>
            /\ reach0' = Reach]_vars

\* alloc_and_collect returned a new object that holds the handle of a block
\* its collection released, while a rooted object was kept
NewObjectDangles ==
    /\ AllocAndCollectReturned
    /\ ncollect = 1
    /\ Safe0
    /\ reach0 # {}
    /\ \E p \in Range(payload[newobj]) :
        /\ gc_header(p) \in ValueOnly
        /\ gc_header(p) \in Released
        /\ gc_header(p) \notin Allocated

\* C18: public operations are never re-entered: a call made from inside a
\* traverse while a collection marks is rejected, the collector state being
\* exclusively borrowed, and it changes nothing: during the mark phase the
\* list, its links, the payloads, the allocated blocks and allocated_objects
\* stay as they are and a flag changes only where mark itself sets it.
NoReentry ==
    /\ [](pc = "panicked" => borrowed)
    /\ [](pc = "mark" => borrowed)
    /\ [][(pc = "mark" /\ pc' \in {"mark", "panicked"}) =>
            /\ values' = values
            /\ allocated_objects' = allocated_objects
            /\ heap' = heap
            /\ payload' = payload
            /\ \A a \in Addr : header'[a].next = header[a].next
            /\ pc' = "mark" =>
                    \A a \in Addr :
                        header'[a].marked # header[a].marked => visits'[a] = visits[a] + 1
            /\ pc' = "panicked" => header' = header]_vars

\* a nested call was rejected in the middle of a mark phase, with one block
\* flagged and another not yet
RejectedInsideMark ==
    /\ pc = "panicked"
    /\ borrowed
    /\ \E a, b \in Range(List) : header[a].marked /\ ~header[b].marked
    /\ allocated_objects = num_objects
    /\ op = "alloc_and_collect"

\* C19: value_offset is the smallest multiple of the maximum alignment that is
\* not below the header size: the value returned for hs and max_align is a
\* multiple of max_align, is >= hs and < hs + max_align, no multiple lies
\* between hs and it, it is hs itself when hs is a multiple, and a payload at
\* that offset in an aligned block is aligned.
OffsetRoundsUp ==
    offset # -1 =>
        /\ offset % max_align = 0
        /\ offset >= hs
        /\ offset < hs + max_align
        /\ \A m \in hs..offset : m % max_align = 0 => m = offset
        /\ hs % max_align = 0 => offset = hs
        /\ \A i \in 0..2 : (i * max_align + offset) % max_align = 0

\* value_offset was called for a header size that is not a multiple of the
\* alignment and rounded it up
OffsetRounded ==
    /\ hs = 17
    /\ max_align = 8
    /\ offset = 24

=============================================================================
